---- MODULE Spec2Model ----
(***************************************************************************)
(* Model of the code-share client (React App component: load-or-create,    *)
(* WebSocket session, debounced edits, echo suppression, reconnect) and of *)
(* the server side it talks to (Snippet Store, Room), the latter taken     *)
(* from the specification because the backend is not part of src/.         *)
(*                                                                         *)
(* Time is in milliseconds.  A timer is a record with the time remaining   *)
(* until its callback may run; time never advances past a pending          *)
(* deadline, and a callback whose deadline has come runs in any order      *)
(* relative to the other events of that instant.                           *)
(***************************************************************************)
EXTENDS Integers, Sequences, FiniteSets, TLC

\* ---------------------------------------------------------------- bounds
MaxEdits      == 2   \* editor change events, all clients together
MaxImages     == 2   \* images pasted, all clients together
MaxResends    == 1   \* image messages a peer sends a second time
MaxDrops      == 2   \* transport failures
MaxNavs       == 1   \* route changes and unmounts
MaxKeys       == 2   \* keystrokes in the slug field of the share dialog
MaxBad        == 1   \* payloads outside the protocol

\* ------------------------------------------------------ program constants
DebounceMs  == 300
EchoMs      == 50
ReconnectMs == 3000
CheckMs     == 400

ClientSeq == <<"c1", "c2">>          \* the browser tabs, in mount order
Clients == {ClientSeq[i] : i \in DOMAIN ClientSeq}
Slugs   == {"a", "b"}
Typed   == {"x", "y"}

InitialCode     == "init"        \* useState('// Start typing ...')
InitialLanguage == "javascript"  \* useState('javascript')
CreateContent   == "dflt"        \* body of the POST in loadOrCreate
CreateLanguage  == "javascript"
EmptyContent    == ""            \* the Store's default empty Snippet
NoSocket        == 0             \* wsRef.current = null
NoSlug          == ""            \* useParams gives no slug; the component is gone
ShareContent    == "s"           \* the code the share dialog was opened with
ShareLanguage   == "python"
NoUrl           == ""            \* useState('') of sharedUrl
Undefined       == "undefined"   \* what a missing field of a message reads as
NoId            == 0             \* a missing image id

\* ------------------------------------------------------------ identifiers
\* What the user can type into the slug field: an upper-case letter, a
\* lower-case letter, a hyphen and a blank
Chars == {"A", "a", "-", " "}
Texts == UNION {[1..n -> Chars] : n \in 0..MaxKeys}

\* The validation rules the specification names for characters outside
\* [a-z0-9-]: replace them (4.1) or strip them (4.2)
Rules == {"replace", "strip"}

\* String.prototype.toLowerCase
toLowerCase(t) == [i \in DOMAIN t |-> IF t[i] = "A" THEN "a" ELSE t[i]]

\* [a-z0-9-]
Allowed(ch) == ch \in {"a", "-"}

RECURSIVE trimStart(_)
trimStart(t) == IF t # <<>> /\ Head(t) = " " THEN trimStart(Tail(t)) ELSE t

RECURSIVE trimEnd(_)
trimEnd(t) ==
  IF t # <<>> /\ t[Len(t)] = " " THEN trimEnd(SubSeq(t, 1, Len(t) - 1)) ELSE t

\* String.prototype.trim
trim(t) == trimEnd(trimStart(t))

\* The characters of a text as one string
RECURSIVE Str(_)
Str(t) == IF t = <<>> THEN "" ELSE Head(t) \o Str(Tail(t))

Replaced(t) == [i \in DOMAIN t |-> IF Allowed(t[i]) THEN t[i] ELSE "-"]
Stripped(t) == SelectSeq(t, Allowed)

\* Normalization that skips the lowercase fold
Normalize_NoFold(r, t) ==
  Str(IF r = "replace" THEN Replaced(t) ELSE Stripped(t))

\* The Validator's normalization under rule r: lowercase-fold, then replace
\* or strip the characters outside [a-z0-9-]
Normalize(r, t) ==
  Str(IF r = "replace" THEN Replaced(toLowerCase(t)) ELSE Stripped(toLowerCase(t)))

\* The identifiers the Store can hold: those of the routes and every
\* normalized text; the empty result is rejected
Names == {Normalize(r, t) : r \in Rules, t \in Texts} \ {""}
Ids   == Slugs \cup Names

\* slug .. gen: React state and refs of each App instance;
\* sendTimers, echoTimers, reconnTimers: pending setTimeout callbacks;
\* loads: loadOrCreate calls in flight;
\* socks, inbox, outbox: WebSocket objects and the messages in flight on each;
\* store, room: the server side;
\* used: counters that bound the run;
\* modal: state and refs of the ShareModal, its requests in flight;
\* rule: the validation rule the server applies;
\* hist: history of the run, read only by the properties
VARIABLES slug, code, language, pastedImages, viewers, wsReady, status,
          isRemote, wsRef, gen,
          sendTimers, echoTimers, reconnTimers,
          loads,
          socks, inbox, outbox,
          store, room,
          used,
          modal, rule,
          hist

appVars   == <<slug, code, language, pastedImages, viewers, wsReady, status,
               isRemote, wsRef, gen>>
timerVars == <<sendTimers, echoTimers, reconnTimers>>
netVars   == <<socks, inbox, outbox>>
srvVars   == <<store, room>>
shareVars == <<modal, rule>>
vars      == <<appVars, timerVars, loads, netVars, srvVars, shareVars, used, hist>>

\* ---------------------------------------------------------------- helpers
Min(S) == CHOOSE x \in S : \A y \in S : x <= y

Range(q) == {q[i] : i \in DOMAIN q}

RECURSIVE Filter(_, _)
\* Array.prototype.filter(i => i !== id) on a list of image ids
Filter(q, id) ==
  IF q = <<>> THEN <<>>
  ELSE IF Head(q) = id THEN Filter(Tail(q), id)
       ELSE <<Head(q)>> \o Filter(Tail(q), id)

\* msg.f ?? d : the field when the message has it, the default otherwise
Field(msg, f, d) == IF f \in DOMAIN msg THEN msg[f] ELSE d

\* Append msg to the queue of every socket in targets
Broadcast(q, targets, msg) ==
  [i \in DOMAIN q |-> IF i \in targets THEN Append(q[i], msg) ELSE q[i]]

SockIds == DOMAIN socks

\* `dead` of the effect instance that created a socket or a timer
Dead(c, sess) == sess # gen[c]

AbsentSnippet ==
  [present |-> FALSE, content |-> "", language |-> "", images |-> <<>>, expired |-> FALSE]
NoRoom == [exists |-> FALSE, content |-> "", language |-> "", images |-> <<>>,
           conns |-> {}, dirty |-> FALSE]

\* new WebSocket(`${WS_BACKEND}/ws/${slug}`)
NewSocket(c, sl, g) ==
  [c |-> c, slug |-> sl, sess |-> g, rs |-> "connecting", srv |-> "pending", net |-> "up"]

\* ------------------------------------------------------------------- Init
\* A Snippet somebody shared earlier through the HTTP interface
SharedSnippet ==
  [present |-> TRUE, content |-> "p", language |-> "python", images |-> <<>>,
   expired |-> FALSE]

\* What the properties remember of a run:
\*   lastEdit, prevEdit  the last two edit messages a Room processed, with the
\*                       connection each came from
\*   pendingTyped        the value the user last typed while the connection was
\*                       open, until an edit carrying it is transmitted
\*   sinceChange         ms since the editor last reported a change
\*   burst               that change came less than 300 ms after the one before
\*   sinceRemote         ms since a broadcast_edit or a load result was shown
\*   sinceClose          ms since the close event of a socket of a live session
\*   dupRoom, dupClient  a Room (a client) has been handed an image whose id
\*                       it already held
\*   checked             the last answer of the server to an availability check
\*   refused             the client's create was refused
\*   droppedImages       ids of the pasted images whose message wsSend dropped
\*   typedUnder          the identifier the client was on when its pending
\*                       debounced send was scheduled
\*   carried             ids of the images the client showed when its route
\*                       last changed
\*   heard               the content of the last broadcast_edit the client has
\*                       shown since its route last changed
NoEdit == [type |-> "none", content |-> "", language |-> "", from |-> NoSocket]

NoHist ==
  [lastEdit     |-> [sl \in Slugs |-> NoEdit],
   prevEdit     |-> [sl \in Slugs |-> NoEdit],
   pendingTyped |-> [c \in Clients |-> "none"],
   sinceChange  |-> [c \in Clients |-> 2 * DebounceMs],
   burst        |-> [c \in Clients |-> FALSE],
   sinceRemote  |-> [c \in Clients |-> EchoMs],
   sinceClose   |-> [c \in Clients |-> 2 * ReconnectMs],
   dupRoom      |-> FALSE,
   dupClient    |-> FALSE,
   checked      |-> [value |-> <<>>, name |-> ""],
   refused      |-> [c \in Clients |-> FALSE],
   droppedImages |-> {},
   typedUnder   |-> [c \in Clients |-> NoSlug],
   carried      |-> [c \in Clients |-> {}],
   heard        |-> [c \in Clients |-> "none"]]

\* Where an App instance stands when a run starts.  Its two effects ran at
\* mount: loadOrCreate is either still waiting for its first GET or has shown
\* the record (and the 50 ms after it have passed); the socket connect()
\* created is either still connecting or has been accepted and opened, its
\* connected/viewers messages consumed.
Phases == {"mounted", "loaded", "connected", "live"}
LoadDone(ph) == ph \in {"loaded", "live"}
SockOpen(ph) == ph \in {"connected", "live"}

SockOf(c) == CHOOSE i \in DOMAIN ClientSeq : ClientSeq[i] = c

\* useState initial values of the ShareModal; nothing is in flight
NoModal ==
  [slug |-> <<>>, slugStatus |-> "idle", checkTimer |-> {}, checks |-> {},
   loading |-> FALSE, shares |-> {}, sharedUrl |-> NoUrl, error |-> FALSE]

\* The state in which client c is in phase ph[c], the Store holds st for the
\* identifier "a" and the server validates by rule r; sockets were accepted
\* in mount order
InitState(ph, st, r) ==
  LET joined == {SockOf(c) : c \in {x \in Clients : SockOpen(ph[x])}}
      last   == CHOOSE i \in joined : \A j \in joined : j <= i
  IN
  /\ slug = [c \in Clients |-> "a"]
  /\ code = [c \in Clients |-> IF LoadDone(ph[c]) THEN st.content ELSE InitialCode]
  /\ language = [c \in Clients |-> IF LoadDone(ph[c]) THEN st.language ELSE InitialLanguage]
  /\ pastedImages = [c \in Clients |-> <<>>]
  /\ viewers = [c \in Clients |->
                  IF SockOf(c) \in joined /\ SockOf(c) # last
                  THEN Cardinality(joined) ELSE 1]
  /\ wsReady = [c \in Clients |-> SockOpen(ph[c])]
  /\ status = [c \in Clients |-> IF LoadDone(ph[c]) THEN "ready" ELSE "loading"]
  /\ isRemote = [c \in Clients |-> FALSE]
  /\ gen = [c \in Clients |-> 1]
  /\ socks = [i \in DOMAIN ClientSeq |->
                IF i \in joined
                THEN [NewSocket(ClientSeq[i], "a", 1) EXCEPT !.rs = "open", !.srv = "joined"]
                ELSE NewSocket(ClientSeq[i], "a", 1)]
  /\ wsRef = [c \in Clients |-> SockOf(c)]
  /\ inbox = [i \in DOMAIN ClientSeq |-> <<>>]
  /\ outbox = [i \in DOMAIN ClientSeq |-> <<>>]
  /\ sendTimers = {}
  /\ echoTimers = {}
  /\ reconnTimers = {}
  /\ loads = {[c |-> c, slug |-> "a", pc |-> "get1", data |-> AbsentSnippet] :
                c \in {x \in Clients : ~LoadDone(ph[x])}}
  /\ store = [sl \in Ids |-> IF sl = "a" THEN st ELSE AbsentSnippet]
  /\ room = [sl \in Slugs |->
               IF joined = {} \/ sl # "a" THEN NoRoom
               ELSE [exists |-> TRUE, content |-> st.content, language |-> st.language,
                     images |-> st.images, conns |-> joined, dirty |-> FALSE]]
  /\ used = [edits |-> 0, images |-> 0, resends |-> 0, drops |-> 0, navs |-> 0,
             keys |-> 0, bad |-> 0]
  /\ modal = NoModal
  /\ rule = r
  /\ hist = NoHist

InitWith(ph, st) == InitState(ph, st, "replace")

\* The state after construction: every App instance has just mounted, and the
\* identifier is either unknown to the Store or was shared earlier
Init ==
  \E st \in {AbsentSnippet, SharedSnippet} : InitWith([c \in Clients |-> "mounted"], st)

\* ------------------------------------------------------------------ timers
Rems == {t.rem : t \in sendTimers} \cup {t.rem : t \in echoTimers}
          \cup {t.rem : t \in reconnTimers} \cup {t.rem : t \in modal.checkTimer}

\* setTimeout(..., ms) measured from now
Later(S, d) == {[t EXCEPT !.rem = @ - d] : t \in S}

Cap(n, limit) == IF n > limit THEN limit ELSE n

\* Time passes: up to the next deadline, or half way to it when the nearest
\* timer has just been set.
Advance(d) ==
  /\ Rems # {} /\ Min(Rems) > 0
  /\ \/ d = Min(Rems)
     \/ /\ Min(Rems) \in {EchoMs, DebounceMs, ReconnectMs, CheckMs}
        /\ d = Min(Rems) \div 2
  /\ sendTimers' = Later(sendTimers, d)
  /\ echoTimers' = Later(echoTimers, d)
  /\ reconnTimers' = Later(reconnTimers, d)
  /\ hist' = [hist EXCEPT
                !.sinceChange = [c \in Clients |-> Cap(@[c] + d, 2 * DebounceMs)],
                !.sinceRemote = [c \in Clients |-> Cap(@[c] + d, EchoMs)],
                !.sinceClose  = [c \in Clients |-> Cap(@[c] + d, 2 * ReconnectMs)]]
  /\ modal' = [modal EXCEPT !.checkTimer = Later(@, d)]
  /\ UNCHANGED <<rule, appVars, loads, netVars, srvVars, used>>

\* ------------------------------------------------------------ client: send
\* wsSend without the readyState test: the message is handed to whatever
\* socket wsRef.current points to
wsSend_NoReadyTest(c, msg) ==
  IF wsRef[c] # NoSocket
  THEN [outbox EXCEPT ![wsRef[c]] = Append(@, msg)]
  ELSE outbox

\* wsSend: the outbox after the call; the message is dropped unless the
\* socket wsRef.current points to is OPEN
wsSend(c, msg) ==
  IF wsRef[c] # NoSocket /\ socks[wsRef[c]].rs = "open"
  THEN [outbox EXCEPT ![wsRef[c]] = Append(@, msg)]
  ELSE outbox

\* handleCodeChange(val): ignored while isRemote; otherwise show the value,
\* cancel the timer sendTimer.current names and set a new one, whose callback
\* closes over the value and the language of this render
handleCodeChange(c, v) ==
  IF isRemote[c]
  THEN UNCHANGED <<code, sendTimers>>
  ELSE /\ code' = [code EXCEPT ![c] = v]
       /\ sendTimers' =
            {t \in sendTimers : ~(t.c = c /\ t.cur)}
              \cup {[c |-> c, rem |-> DebounceMs, v |-> v, language |-> language[c], cur |-> TRUE]}

\* The editor reports a change typed by the user: its content is now v
EditorChange(c, v) ==
  /\ used.edits < MaxEdits
  /\ slug[c] # NoSlug
  /\ v # code[c]
  /\ handleCodeChange(c, v)
  /\ used' = [used EXCEPT !.edits = @ + 1]
  /\ hist' = [hist EXCEPT
                !.pendingTyped[c] =
                  IF wsRef[c] # NoSocket /\ socks[wsRef[c]].rs = "open" THEN v ELSE "none",
                !.sinceChange[c] = 0,
                !.burst[c] = hist.sinceChange[c] < DebounceMs,
                !.typedUnder[c] = IF isRemote[c] THEN @ ELSE slug[c]]
  /\ UNCHANGED <<shareVars, slug, language, pastedImages, viewers, wsReady, status, isRemote,
                 wsRef, gen, echoTimers, reconnTimers, loads, netVars, srvVars>>

\* The message the debounce callback hands to wsSend
EditMessage(t) == [type |-> "edit", content |-> t.v, language |-> t.language]

\* The callback of the debounce timer: wsSend({type:'edit', content: v, language})
SendFire(t) ==
  /\ t \in sendTimers /\ t.rem = 0
  /\ sendTimers' = sendTimers \ {t}
  /\ outbox' = wsSend(t.c, EditMessage(t))
  /\ hist' = [hist EXCEPT
                !.pendingTyped[t.c] =
                  IF outbox' # outbox /\ @ = t.v THEN "none" ELSE @]
  /\ UNCHANGED <<shareVars, appVars, echoTimers, reconnTimers, loads, socks, inbox, srvVars, used>>


\* ---------------------------------------------------------- client: images
\* crypto.randomUUID(): an id no image has had before
NewImageId == used.images + 1

\* image.onload in processImage: append the new image, then wsSend it
processImage(c) ==
  /\ pastedImages' = [pastedImages EXCEPT ![c] = Append(@, NewImageId)]
  /\ outbox' = wsSend(c, [type |-> "image", image |-> NewImageId])

PasteImage(c) ==
  /\ used.images < MaxImages
  /\ slug[c] # NoSlug
  /\ processImage(c)
  /\ used' = [used EXCEPT !.images = @ + 1]
  /\ hist' = [hist EXCEPT
                !.droppedImages = IF outbox' = outbox THEN @ \cup {NewImageId} ELSE @]
  /\ UNCHANGED <<shareVars, slug, code, language, viewers, wsReady, status, isRemote, wsRef, gen,
                 timerVars, loads, socks, inbox, srvVars>>

\* removeImage(id): drop the image locally, then wsSend the removal
removeImage(c, id) ==
  /\ pastedImages' = [pastedImages EXCEPT ![c] = Filter(@, id)]
  /\ outbox' = wsSend(c, [type |-> "remove_image", id |-> id])

ClickRemoveImage(c, id) ==
  /\ id \in Range(pastedImages[c])
  /\ slug[c] # NoSlug
  /\ removeImage(c, id)
  /\ UNCHANGED <<shareVars, slug, code, language, viewers, wsReady, status, isRemote, wsRef, gen,
                 timerVars, loads, socks, inbox, srvVars, used, hist>>

\* A peer that is not this client sends an image message a second time on its
\* open connection (the Room accepts any well-formed message)
ResendImage(s, id) ==
  /\ used.resends < MaxResends
  /\ s \in SockIds /\ socks[s].rs = "open"
  /\ id \in Range(pastedImages[socks[s].c])
  /\ outbox' = [outbox EXCEPT ![s] = Append(@, [type |-> "image", image |-> id])]
  /\ used' = [used EXCEPT !.resends = @ + 1]
  /\ UNCHANGED <<shareVars, appVars, timerVars, loads, socks, inbox, srvVars, hist>>

\* --------------------------------------------------------- client: receive
\* setTimeout(() => { isRemote.current = false }, 50)
EchoTimer(c) == [c |-> c, rem |-> EchoMs]

\* ws.onmessage with setLanguage left out of the broadcast_edit branch
onmessage_NoLanguage(c, msg) ==
  /\ viewers' =
       IF msg.type = "connected" THEN [viewers EXCEPT ![c] = Field(msg, "viewers", 1)]
       ELSE IF msg.type = "viewers" THEN [viewers EXCEPT ![c] = Field(msg, "count", 1)]
       ELSE viewers
  /\ IF msg.type = "broadcast_edit"
     THEN /\ isRemote' = [isRemote EXCEPT ![c] = TRUE]
          /\ code' = [code EXCEPT ![c] = Field(msg, "content", Undefined)]
          /\ language' = language
          /\ echoTimers' = echoTimers \cup {EchoTimer(c)}
     ELSE UNCHANGED <<isRemote, code, language, echoTimers>>
  /\ pastedImages' =
       IF msg.type = "broadcast_image"
       THEN [pastedImages EXCEPT ![c] =
               IF msg.image \in Range(@) THEN @ ELSE Append(@, msg.image)]
       ELSE IF msg.type = "broadcast_remove_image"
       THEN [pastedImages EXCEPT ![c] = Filter(@, Field(msg, "id", NoId))]
       ELSE pastedImages

\* ws.onmessage with the prev.find(...) test left out of the broadcast_image
\* branch: the image is appended whether or not it is held
onmessage_AlwaysAppend(c, msg) ==
  /\ viewers' =
       IF msg.type = "connected" THEN [viewers EXCEPT ![c] = Field(msg, "viewers", 1)]
       ELSE IF msg.type = "viewers" THEN [viewers EXCEPT ![c] = Field(msg, "count", 1)]
       ELSE viewers
  /\ IF msg.type = "broadcast_edit"
     THEN /\ isRemote' = [isRemote EXCEPT ![c] = TRUE]
          /\ code' = [code EXCEPT ![c] = Field(msg, "content", Undefined)]
          /\ language' = [language EXCEPT ![c] = Field(msg, "language", Undefined)]
          /\ echoTimers' = echoTimers \cup {EchoTimer(c)}
     ELSE UNCHANGED <<isRemote, code, language, echoTimers>>
  /\ pastedImages' =
       IF msg.type = "broadcast_image"
       THEN [pastedImages EXCEPT ![c] = Append(@, msg.image)]
       ELSE IF msg.type = "broadcast_remove_image"
       THEN [pastedImages EXCEPT ![c] = Filter(@, Field(msg, "id", NoId))]
       ELSE pastedImages

\* ws.onmessage, after JSON.parse: one branch per msg.type, nothing
\* otherwise; a field the message lacks reads as undefined
onmessage(c, msg) ==
  /\ viewers' =
       IF msg.type = "connected" THEN [viewers EXCEPT ![c] = Field(msg, "viewers", 1)]
       ELSE IF msg.type = "viewers" THEN [viewers EXCEPT ![c] = Field(msg, "count", 1)]
       ELSE viewers
  /\ IF msg.type = "broadcast_edit"
     THEN /\ isRemote' = [isRemote EXCEPT ![c] = TRUE]
          /\ code' = [code EXCEPT ![c] = Field(msg, "content", Undefined)]
          /\ language' = [language EXCEPT ![c] = Field(msg, "language", Undefined)]
          /\ echoTimers' = echoTimers \cup {EchoTimer(c)}
     ELSE UNCHANGED <<isRemote, code, language, echoTimers>>
  /\ pastedImages' =
       IF msg.type = "broadcast_image"
       THEN [pastedImages EXCEPT ![c] =
               IF msg.image \in Range(@) THEN @ ELSE Append(@, msg.image)]
       ELSE IF msg.type = "broadcast_remove_image"
       THEN [pastedImages EXCEPT ![c] = Filter(@, Field(msg, "id", NoId))]
       ELSE pastedImages

\* Payloads the client's protocol does not define: text that is not JSON, an
\* unknown type, and messages of a known type without their fields
BadPayloads ==
  {[text |-> "{"], [type |-> "ping"], [type |-> "connected"], [type |-> "viewers"],
   [type |-> "broadcast_edit"], [type |-> "broadcast_remove_image"]}

\* Such a payload arrives on socket s
Garble(s, e) ==
  /\ used.bad < MaxBad
  /\ s \in SockIds /\ e \in BadPayloads
  /\ socks[s].rs = "open" /\ socks[s].net = "up"
  /\ inbox' = [inbox EXCEPT ![s] = Append(@, e)]
  /\ used' = [used EXCEPT !.bad = @ + 1]
  /\ UNCHANGED <<shareVars, appVars, timerVars, loads, socks, outbox, srvVars, hist>>

\* JSON.parse(e.data): text that is not JSON throws; the empty catch block
\* leaves everything as a message does that no branch matches
JSONparse(e) == IF "text" \in DOMAIN e THEN [type |-> "SyntaxError"] ELSE e

\* A message event on socket s. The handler is the same whatever the state
\* of the socket and of the effect instance; a message that was queued when
\* close() was called may still be delivered until the socket has closed
OnMessage(s) ==
  /\ s \in SockIds /\ socks[s].rs \in {"open", "closing"}
  /\ inbox[s] # <<>>
  /\ onmessage(socks[s].c, JSONparse(Head(inbox[s])))
  /\ inbox' = [inbox EXCEPT ![s] = Tail(@)]
  /\ hist' = [hist EXCEPT
                !.sinceRemote[socks[s].c] =
                  IF JSONparse(Head(inbox[s])).type = "broadcast_edit" THEN 0 ELSE @,
                !.heard[socks[s].c] =
                  IF JSONparse(Head(inbox[s])).type = "broadcast_edit"
                  THEN Field(Head(inbox[s]), "content", Undefined) ELSE @,
                !.dupClient =
                  @ \/ /\ JSONparse(Head(inbox[s])).type = "broadcast_image"
                       /\ Head(inbox[s]).image \in Range(pastedImages[socks[s].c])]
  /\ UNCHANGED <<shareVars, slug, wsReady, status, wsRef, gen, sendTimers, reconnTimers,
                 loads, socks, outbox, srvVars, used>>

\* The callback of an echo-suppression timer: isRemote.current = false
EchoFire(t) ==
  /\ t \in echoTimers /\ t.rem = 0
  /\ echoTimers' = echoTimers \ {t}
  /\ isRemote' = [isRemote EXCEPT ![t.c] = FALSE]
  /\ UNCHANGED <<shareVars, slug, code, language, pastedImages, viewers, wsReady, status, wsRef,
                 gen, sendTimers, reconnTimers, loads, netVars, srvVars, used, hist>>


\* ------------------------------------------------------ client: connection
\* ws.onopen = () => { if (!dead) setWsReady(true) }
onopen(s) ==
  wsReady' = IF Dead(socks[s].c, socks[s].sess) THEN wsReady
             ELSE [wsReady EXCEPT ![socks[s].c] = TRUE]

\* The open event: the server has accepted the connection
OnOpen(s) ==
  /\ s \in SockIds
  /\ socks[s].rs = "connecting" /\ socks[s].srv = "joined" /\ socks[s].net = "up"
  /\ socks' = [socks EXCEPT ![s].rs = "open"]
  /\ onopen(s)
  /\ UNCHANGED <<shareVars, slug, code, language, pastedImages, viewers, status, isRemote, wsRef,
                 gen, timerVars, loads, inbox, outbox, srvVars, used, hist>>

\* The transport of a live socket fails (connection refused, network drop)
TransportDown(s) ==
  /\ used.drops < MaxDrops
  /\ s \in SockIds
  /\ socks[s].rs \in {"connecting", "open"} /\ socks[s].net = "up"
  /\ socks' = [socks EXCEPT ![s].net = "down"]
  /\ used' = [used EXCEPT !.drops = @ + 1]
  /\ UNCHANGED <<shareVars, appVars, timerVars, loads, inbox, outbox, srvVars, hist>>

\* An error handler that closes the socket and schedules a reconnect itself,
\* as the close handler will do again
OnError_Retry(s) ==
  /\ s \in SockIds
  /\ socks[s].rs \in {"connecting", "open"} /\ socks[s].net = "down"
  /\ socks' = [socks EXCEPT ![s].rs = "closing"]
  /\ inbox' = [inbox EXCEPT ![s] = <<>>]
  /\ reconnTimers' =
       reconnTimers \cup {[c |-> socks[s].c, rem |-> ReconnectMs, sess |-> socks[s].sess,
                           slug |-> socks[s].slug, cur |-> FALSE]}
  /\ UNCHANGED <<shareVars, appVars, sendTimers, echoTimers, loads, outbox, srvVars, used, hist>>

\* ws.onerror = () => ws.close(): the failed socket starts closing; nothing
\* more arrives on it
OnError(s) ==
  /\ s \in SockIds
  /\ socks[s].rs \in {"connecting", "open"} /\ socks[s].net = "down"
  /\ socks' = [socks EXCEPT ![s].rs = "closing"]
  /\ inbox' = [inbox EXCEPT ![s] = <<>>]
  /\ UNCHANGED <<shareVars, appVars, timerVars, loads, outbox, srvVars, used, hist>>

\* The reconnect timer with a delay that doubles from the second attempt on
ReconnTimer_Backoff(s) ==
  [c |-> socks[s].c,
   rem |-> IF s \in DOMAIN ClientSeq THEN ReconnectMs ELSE 2 * ReconnectMs,
   sess |-> socks[s].sess, slug |-> socks[s].slug, cur |-> TRUE]

\* setTimeout(connect, 3000), its handle stored in reconnTimer.current
ReconnTimer(s) ==
  [c |-> socks[s].c, rem |-> ReconnectMs, sess |-> socks[s].sess,
   slug |-> socks[s].slug, cur |-> TRUE]

\* ws.onclose that only clears wsReady: no reconnect is scheduled
onclose_NoReconnect(s) ==
  /\ wsReady' = [wsReady EXCEPT ![socks[s].c] = FALSE]
  /\ reconnTimers' = reconnTimers

\* ws.onclose with the test of dead left out: every close event schedules a
\* reconnect
onclose_NoDeadTest(s) ==
  /\ wsReady' = [wsReady EXCEPT ![socks[s].c] = FALSE]
  /\ reconnTimers' =
       {IF t.c = socks[s].c THEN [t EXCEPT !.cur = FALSE] ELSE t : t \in reconnTimers}
         \cup {[c |-> socks[s].c, rem |-> ReconnectMs, sess |-> socks[s].sess,
                slug |-> socks[s].slug, cur |-> TRUE]}

\* ws.onclose: setWsReady(false); if (!dead) reconnTimer.current = setTimeout(...)
onclose(s) ==
  /\ wsReady' = [wsReady EXCEPT ![socks[s].c] = FALSE]
  /\ reconnTimers' =
       IF Dead(socks[s].c, socks[s].sess) THEN reconnTimers
       ELSE {IF t.c = socks[s].c THEN [t EXCEPT !.cur = FALSE] ELSE t : t \in reconnTimers}
              \cup {ReconnTimer(s)}

\* The close event of socket s: after close(), or when the transport went
\* down without an error event
OnClose(s) ==
  /\ s \in SockIds
  /\ \/ socks[s].rs = "closing"
     \/ socks[s].rs \in {"connecting", "open"} /\ socks[s].net = "down"
  /\ socks' = [socks EXCEPT ![s].rs = "closed", ![s].net = "down"]
  /\ inbox' = [inbox EXCEPT ![s] = <<>>]
  /\ onclose(s)
  /\ hist' = [hist EXCEPT
                !.sinceClose[socks[s].c] =
                  IF Dead(socks[s].c, socks[s].sess) THEN @ ELSE 0]
  /\ UNCHANGED <<shareVars, slug, code, language, pastedImages, viewers, status, isRemote, wsRef,
                 gen, sendTimers, echoTimers, loads, outbox, srvVars, used>>

\* connect(): if (dead) return; otherwise create a socket for the slug of the
\* effect instance and store it in wsRef.current
connect(c, sl, sess) ==
  IF Dead(c, sess)
  THEN UNCHANGED <<socks, inbox, outbox, wsRef>>
  ELSE /\ socks' = Append(socks, NewSocket(c, sl, sess))
       /\ inbox' = Append(inbox, <<>>)
       /\ outbox' = Append(outbox, <<>>)
       /\ wsRef' = [wsRef EXCEPT ![c] = Len(socks) + 1]

\* The callback of a reconnect timer
ReconnFire(t) ==
  /\ t \in reconnTimers /\ t.rem = 0
  /\ reconnTimers' = reconnTimers \ {t}
  /\ connect(t.c, t.slug, t.sess)
  /\ UNCHANGED <<shareVars, slug, code, language, pastedImages, viewers, wsReady, status, isRemote,
                 gen, sendTimers, echoTimers, loads, srvVars, used, hist>>

\* The cleanup of the WebSocket effect: dead = true (the session of every
\* socket and timer of the old effect instance is no longer gen[c]),
\* clearTimeout(reconnTimer.current), wsRef.current?.close().  The values
\* of socks and reconnTimers after it:
cleanupSocks(c) ==
  IF wsRef[c] # NoSocket /\ socks[wsRef[c]].rs \in {"connecting", "open"}
  THEN [socks EXCEPT ![wsRef[c]].rs = "closing", ![wsRef[c]].net = "down"]
  ELSE socks

cleanupTimers(c) == {t \in reconnTimers : ~(t.c = c /\ t.cur)}

\* The route changes to /sl: both effects are torn down and run again for
\* the new slug: setStatus('loading'), loadOrCreate(), connect()
Navigate(c, sl) ==
  /\ used.navs < MaxNavs
  /\ slug[c] # NoSlug /\ sl # slug[c]
  /\ slug' = [slug EXCEPT ![c] = sl]
  /\ gen' = [gen EXCEPT ![c] = @ + 1]
  /\ reconnTimers' = cleanupTimers(c)
  /\ socks' = Append(cleanupSocks(c), NewSocket(c, sl, gen[c] + 1))
  /\ inbox' = Append(inbox, <<>>)
  /\ outbox' = Append(outbox, <<>>)
  /\ wsRef' = [wsRef EXCEPT ![c] = Len(socks) + 1]
  /\ status' = [status EXCEPT ![c] = "loading"]
  /\ loads' = loads \cup {[c |-> c, slug |-> sl, pc |-> "get1", data |-> AbsentSnippet]}
  /\ used' = [used EXCEPT !.navs = @ + 1]
  /\ hist' = [hist EXCEPT !.carried[c] = Range(pastedImages[c]), !.heard[c] = "none"]
  /\ UNCHANGED <<shareVars, code, language, pastedImages, viewers, wsReady, isRemote,
                 sendTimers, echoTimers, srvVars>>

\* The component unmounts: the effects are torn down and none runs again
Unmount(c) ==
  /\ used.navs < MaxNavs
  /\ slug[c] # NoSlug
  /\ slug' = [slug EXCEPT ![c] = NoSlug]
  /\ gen' = [gen EXCEPT ![c] = @ + 1]
  /\ reconnTimers' = cleanupTimers(c)
  /\ socks' = cleanupSocks(c)
  /\ wsRef' = [wsRef EXCEPT ![c] = NoSocket]
  /\ used' = [used EXCEPT !.navs = @ + 1]
  /\ UNCHANGED <<shareVars, code, language, pastedImages, viewers, wsReady, status, isRemote,
                 sendTimers, echoTimers, loads, inbox, outbox, srvVars, hist>>

\* ------------------------------------------------------------ loadOrCreate
\* get(id) that returns an expired record until the sweep has removed it
StoreGet_UntilPurged(sl) == store[sl]

\* What the Store answers to GET /api/snippets/{id}: the record, or
\* NotFound when there is none or the one there has expired
StoreGet(sl) == IF store[sl].present /\ ~store[sl].expired THEN store[sl] ELSE AbsentSnippet

\* The clock passes expiresAt of the Snippet of sl. No timer of a client is
\* pending: time does not pass a nearer deadline
TtlElapse(sl) ==
  /\ Rems = {}
  /\ store[sl].present /\ ~store[sl].expired
  /\ store' = [store EXCEPT ![sl].expired = TRUE]
  /\ UNCHANGED <<shareVars, appVars, timerVars, loads, netVars, room, used, hist>>

\* The sweep removes the expired Snippet of sl
Sweep(sl) ==
  /\ store[sl].present /\ store[sl].expired
  /\ store' = [store EXCEPT ![sl] = AbsentSnippet]
  /\ UNCHANGED <<shareVars, appVars, timerVars, loads, netVars, room, used, hist>>

\* loadOrCreate without the create: any GET that is not OK throws
LoadGet_NoCreate(l) ==
  /\ l \in loads /\ l.pc \in {"get1", "get2"}
  /\ IF StoreGet(l.slug).present
     THEN /\ loads' = (loads \ {l}) \cup {[l EXCEPT !.pc = "apply", !.data = StoreGet(l.slug)]}
          /\ UNCHANGED status
     ELSE /\ loads' = loads \ {l}
          /\ status' = [status EXCEPT ![l.c] = "error"]
  /\ UNCHANGED <<shareVars, slug, code, language, pastedImages, viewers, wsReady, isRemote, wsRef,
                 gen, timerVars, netVars, srvVars, used, hist>>

\* The server answers a GET of loadOrCreate: 200 with the record, or 404,
\* after which the client POSTs (first GET) or gives up (second GET)
LoadGet(l) ==
  /\ l \in loads /\ l.pc \in {"get1", "get2"}
  /\ IF StoreGet(l.slug).present
     THEN /\ loads' = (loads \ {l}) \cup {[l EXCEPT !.pc = "apply", !.data = StoreGet(l.slug)]}
          /\ UNCHANGED status
     ELSE IF l.pc = "get1"
     THEN /\ loads' = (loads \ {l}) \cup {[l EXCEPT !.pc = "post"]}
          /\ UNCHANGED status
     ELSE /\ loads' = loads \ {l}
          /\ status' = [status EXCEPT ![l.c] = "error"]
  /\ UNCHANGED <<shareVars, slug, code, language, pastedImages, viewers, wsReady, isRemote, wsRef,
                 gen, timerVars, netVars, srvVars, used, hist>>

\* POST /api/snippets where the last writer wins: the record is replaced
StoreCreate_Overwrite(sl, content, lang) ==
  [store EXCEPT ![sl] =
     [present |-> TRUE, content |-> content, language |-> lang, images |-> <<>>,
           expired |-> FALSE]]

\* POST /api/snippets with a slug: the first writer creates the record, a
\* later one is refused (409) and changes nothing
StoreCreate(sl, content, lang) ==
  IF StoreGet(sl).present THEN store
  ELSE [store EXCEPT ![sl] =
          [present |-> TRUE, content |-> content, language |-> lang, images |-> <<>>,
           expired |-> FALSE]]

\* The server answers the POST of loadOrCreate; the client ignores the status
LoadPost(l) ==
  /\ l \in loads /\ l.pc = "post"
  /\ store' = StoreCreate(l.slug, CreateContent, CreateLanguage)
  /\ loads' = (loads \ {l}) \cup {[l EXCEPT !.pc = "get2"]}
  /\ hist' = [hist EXCEPT !.refused[l.c] = StoreGet(l.slug).present]
  /\ UNCHANGED <<shareVars, appVars, timerVars, netVars, room, used>>

\* The tail of loadOrCreate with setLanguage left out
loadApply_NoLanguage(c, data) ==
  /\ isRemote' = [isRemote EXCEPT ![c] = TRUE]
  /\ code' = [code EXCEPT ![c] = data.content]
  /\ language' = language
  /\ pastedImages' =
       IF Len(data.images) > 0 THEN [pastedImages EXCEPT ![c] = data.images]
       ELSE pastedImages
  /\ echoTimers' = echoTimers \cup {EchoTimer(c)}
  /\ status' = [status EXCEPT ![c] = "ready"]

\* The tail of loadOrCreate after a 200: show the record
loadApply(c, data) ==
  /\ isRemote' = [isRemote EXCEPT ![c] = TRUE]
  /\ code' = [code EXCEPT ![c] = data.content]
  /\ language' = [language EXCEPT ![c] = data.language]
  /\ pastedImages' =
       IF Len(data.images) > 0 THEN [pastedImages EXCEPT ![c] = data.images]
       ELSE pastedImages
  /\ echoTimers' = echoTimers \cup {EchoTimer(c)}
  /\ status' = [status EXCEPT ![c] = "ready"]

LoadApply(l) ==
  /\ l \in loads /\ l.pc = "apply"
  /\ loadApply(l.c, l.data)
  /\ loads' = loads \ {l}
  /\ hist' = [hist EXCEPT !.sinceRemote[l.c] = 0]
  /\ UNCHANGED <<shareVars, slug, viewers, wsReady, wsRef, gen, sendTimers, reconnTimers,
                 netVars, srvVars, used>>

\* A fetch of loadOrCreate rejects (network error): catch { setStatus('error') }
LoadThrow(l) ==
  /\ l \in loads /\ l.pc \in {"get1", "post", "get2"}
  /\ loads' = loads \ {l}
  /\ status' = [status EXCEPT ![l.c] = "error"]
  /\ UNCHANGED <<shareVars, slug, code, language, pastedImages, viewers, wsReady, isRemote, wsRef,
                 gen, timerVars, netVars, srvVars, used, hist>>


\* ------------------------------------------------------------- ShareModal
\* checkAvailability(id): invalid before storage is touched, else taken or
\* available
checkAvailability(t) ==
  IF Normalize(rule, t) = "" THEN "invalid"
  ELSE IF StoreGet(Normalize(rule, t)).present THEN "taken" ELSE "available"

\* handleSlugChange(v): show v, drop the shared URL and the pending check;
\* a non-blank v is checked 400 ms later
handleSlugChange(v) ==
  modal' = [modal EXCEPT
              !.slug = v,
              !.sharedUrl = NoUrl,
              !.checkTimer = IF trim(v) = <<>> THEN {} ELSE {[rem |-> CheckMs, value |-> v]},
              !.slugStatus = IF trim(v) = <<>> THEN "idle" ELSE "checking"]

\* The user types one more character into the slug field
SlugChange(ch) ==
  /\ used.keys < MaxKeys
  /\ modal.sharedUrl = NoUrl
  /\ handleSlugChange(Append(modal.slug, ch))
  /\ used' = [used EXCEPT !.keys = @ + 1]
  /\ UNCHANGED <<rule, appVars, timerVars, loads, netVars, srvVars, hist>>

\* The check timer's callback, checkSlug(value) up to its fetch
CheckFire(t) ==
  /\ t \in modal.checkTimer /\ t.rem = 0
  /\ modal' = [modal EXCEPT
                 !.checkTimer = @ \ {t},
                 !.slugStatus = IF trim(t.value) = <<>> THEN "idle" ELSE "checking",
                 !.checks = IF trim(t.value) = <<>> THEN @ ELSE @ \cup {[value |-> t.value]}]
  /\ UNCHANGED <<rule, appVars, timerVars, loads, netVars, srvVars, used, hist>>

\* The server answers GET /api/check/{value}; checkSlug shows the answer
CheckDone(q) ==
  /\ q \in modal.checks
  /\ modal' = [modal EXCEPT
                 !.checks = @ \ {q},
                 !.slugStatus = IF checkAvailability(q.value) = "available"
                                THEN "available" ELSE "taken"]
  /\ hist' = [hist EXCEPT
                !.checked = [value |-> q.value, name |-> Normalize(rule, q.value)]]
  /\ UNCHANGED <<rule, appVars, timerVars, loads, netVars, srvVars, used>>

\* The fetch of checkSlug rejects: catch { setSlugStatus('idle') }
CheckThrow(q) ==
  /\ q \in modal.checks
  /\ modal' = [modal EXCEPT !.checks = @ \ {q}, !.slugStatus = "idle"]
  /\ UNCHANGED <<rule, appVars, timerVars, loads, netVars, srvVars, used, hist>>

\* The Share button is enabled and clicked: handleShare up to its fetch; the
\* body carries slug.trim(), or no slug when that is empty
ShareClick ==
  /\ ~modal.loading /\ modal.slugStatus \notin {"taken", "checking"}
  /\ modal.sharedUrl = NoUrl
  /\ modal' = [modal EXCEPT
                 !.loading = TRUE,
                 !.error = FALSE,
                 !.shares = @ \cup {[input |-> modal.slug, slug |-> trim(modal.slug)]}]
  /\ UNCHANGED <<rule, appVars, timerVars, loads, netVars, srvVars, used, hist>>

\* The identifier the Allocator generates for a create without one
Generated == "b"

\* The identifier a create request addresses
Requested(r) == IF r.slug = <<>> THEN Generated ELSE Normalize(rule, r.slug)

\* The server answers the POST of handleShare: 201 with the stored record,
\* 400 for an invalid identifier, 409 for one that is taken; handleShare
\* shows the URL of data.slug or the error
ShareDone(r) ==
  /\ r \in modal.shares
  /\ LET n  == Requested(r)
         ok == n # "" /\ ~StoreGet(n).present
     IN /\ store' = IF ok THEN StoreCreate(n, ShareContent, ShareLanguage) ELSE store
        /\ modal' = [modal EXCEPT
                       !.shares = @ \ {r},
                       !.loading = FALSE,
                       !.error = ~ok,
                       !.sharedUrl = IF ok THEN n ELSE @]
  /\ UNCHANGED <<rule, appVars, timerVars, loads, netVars, room, used, hist>>

\* The fetch of handleShare rejects: 'Could not connect to server'
ShareThrow(r) ==
  /\ r \in modal.shares
  /\ modal' = [modal EXCEPT !.shares = @ \ {r}, !.loading = FALSE, !.error = TRUE]
  /\ UNCHANGED <<rule, appVars, timerVars, loads, netVars, srvVars, used, hist>>

\* ------------------------------------------------------------ server: Room
\* The Snippet a first connection creates for an identifier that has none
DefaultSnippet ==
  [present |-> TRUE, content |-> EmptyContent, language |-> CreateLanguage, images |-> <<>>,
   expired |-> FALSE]

\* acquire(id), Store side: the Snippet the Room is seeded from
Materialize(sl) == IF StoreGet(sl).present THEN store ELSE [store EXCEPT ![sl] = DefaultSnippet]

\* acquire(id) that constructs a Room on every call, replacing the one registered
Acquire_AlwaysConstruct(sl) ==
  [exists |-> TRUE, content |-> Materialize(sl)[sl].content,
   language |-> Materialize(sl)[sl].language,
   images |-> Materialize(sl)[sl].images, conns |-> {}, dirty |-> FALSE]

\* acquire(id), Registry side: the existing Room, or a new one seeded from the Store
Acquire(sl) ==
  IF room[sl].exists THEN room[sl]
  ELSE [exists |-> TRUE, content |-> Materialize(sl)[sl].content,
        language |-> Materialize(sl)[sl].language,
        images |-> Materialize(sl)[sl].images, conns |-> {}, dirty |-> FALSE]

\* The record the Room writes back to the Store
Persisted(r) ==
  [present |-> TRUE, content |-> r.content, language |-> r.language, images |-> r.images,
   expired |-> FALSE]

\* join: attach the connection; connected{viewerCount} to the joiner,
\* viewers{count} to all others
RoomJoin(s) ==
  /\ s \in SockIds
  /\ socks[s].srv = "pending" /\ socks[s].rs = "connecting" /\ socks[s].net = "up"
  /\ LET sl == socks[s].slug
         r  == Acquire(sl)
         n  == Cardinality(r.conns) + 1
     IN /\ store' = IF room[sl].exists THEN store ELSE Materialize(sl)
        /\ room' = [room EXCEPT ![sl] = [r EXCEPT !.conns = @ \cup {s}]]
        /\ inbox' = Broadcast(Broadcast(inbox, {s}, [type |-> "connected", viewerCount |-> n]),
                              r.conns, [type |-> "viewers", count |-> n])
  /\ socks' = [socks EXCEPT ![s].srv = "joined"]
  /\ UNCHANGED <<shareVars, appVars, timerVars, loads, outbox, used, hist>>

\* edit handled as a content-only update: the Room keeps its language
RoomEdit_KeepLanguage(r, msg) ==
  [r EXCEPT !.content = msg.content, !.dirty = TRUE]

\* edit{content, language}: replace content and language wholesale
RoomEdit(r, msg) ==
  [r EXCEPT !.content = msg.content, !.language = msg.language, !.dirty = TRUE]

\* image{image}: append unless an image with that id is present
RoomImage(r, msg) ==
  [r EXCEPT !.images = IF msg.image \in Range(@) THEN @ ELSE Append(@, msg.image),
            !.dirty = TRUE]

\* remove_image{id}: remove the image with that id, if any
RoomRemoveImage(r, msg) ==
  [r EXCEPT !.images = Filter(@, msg.id), !.dirty = TRUE]

\* The broadcast that relays an inbound message
Relay(msg) ==
  IF msg.type = "edit"
  THEN [type |-> "broadcast_edit", content |-> msg.content, language |-> msg.language]
  ELSE IF msg.type = "image"
  THEN [type |-> "broadcast_image", image |-> msg.image]
  ELSE [type |-> "broadcast_remove_image", id |-> msg.id]

\* The Room processes the next message of connection s and relays it to
\* every other connection
RoomRecv(s) ==
  /\ s \in SockIds
  /\ s \in room[socks[s].slug].conns
  /\ outbox[s] # <<>>
  /\ LET sl  == socks[s].slug
         msg == Head(outbox[s])
     IN /\ room' = [room EXCEPT ![sl] =
                      IF msg.type = "edit" THEN RoomEdit(@, msg)
                      ELSE IF msg.type = "image" THEN RoomImage(@, msg)
                      ELSE RoomRemoveImage(@, msg)]
        /\ inbox' = Broadcast(inbox, room[sl].conns \ {s}, Relay(msg))
        /\ hist' = [hist EXCEPT
                      !.lastEdit[sl] =
                        IF msg.type = "edit"
                        THEN [type |-> "edit", content |-> msg.content,
                              language |-> msg.language, from |-> s]
                        ELSE @,
                      !.prevEdit[sl] = IF msg.type = "edit" THEN hist.lastEdit[sl] ELSE @,
                      !.dupRoom =
                        @ \/ (msg.type = "image" /\ msg.image \in Range(room[sl].images))]
  /\ outbox' = [outbox EXCEPT ![s] = Tail(@)]
  /\ UNCHANGED <<shareVars, appVars, timerVars, loads, socks, store, used>>

\* leave that computes the viewers broadcast before removing the connection
RoomLeave_BroadcastFirst(s) ==
  /\ s \in SockIds
  /\ s \in room[socks[s].slug].conns
  /\ socks[s].net = "down"
  /\ LET sl   == socks[s].slug
         rest == room[sl].conns \ {s}
     IN /\ inbox' = Broadcast(inbox, room[sl].conns,
                              [type |-> "viewers", count |-> Cardinality(room[sl].conns)])
        /\ IF rest = {}
           THEN /\ store' = [store EXCEPT ![sl] = Persisted(room[sl])]
                /\ room' = [room EXCEPT ![sl] = NoRoom]
           ELSE /\ room' = [room EXCEPT ![sl].conns = rest]
                /\ UNCHANGED store
  /\ socks' = [socks EXCEPT ![s].srv = "gone"]
  /\ outbox' = [outbox EXCEPT ![s] = <<>>]
  /\ UNCHANGED <<shareVars, appVars, timerVars, loads, used, hist>>

\* leave: the transport of connection s is gone; remove it, then
\* viewers{count} to the remaining connections; the last leave persists the
\* Room's state and tears the Room down
RoomLeave(s) ==
  /\ s \in SockIds
  /\ s \in room[socks[s].slug].conns
  /\ socks[s].net = "down"
  /\ LET sl   == socks[s].slug
         rest == room[sl].conns \ {s}
     IN /\ inbox' = Broadcast(inbox, rest, [type |-> "viewers", count |-> Cardinality(rest)])
        /\ IF rest = {}
           THEN /\ store' = [store EXCEPT ![sl] = Persisted(room[sl])]
                /\ room' = [room EXCEPT ![sl] = NoRoom]
           ELSE /\ room' = [room EXCEPT ![sl].conns = rest]
                /\ UNCHANGED store
  /\ socks' = [socks EXCEPT ![s].srv = "gone"]
  /\ outbox' = [outbox EXCEPT ![s] = <<>>]
  /\ UNCHANGED <<shareVars, appVars, timerVars, loads, used, hist>>

\* Write propagation: the Room's state reaches the Store
RoomFlush(sl) ==
  /\ room[sl].exists /\ room[sl].dirty
  /\ store' = [store EXCEPT ![sl] = Persisted(room[sl])]
  /\ room' = [room EXCEPT ![sl].dirty = FALSE]
  /\ UNCHANGED <<shareVars, appVars, timerVars, loads, netVars, used, hist>>

\* ------------------------------------------------------------ specification
\* The session of client c, not torn down, has a socket that is open
HasOpen(c) == wsRef[c] # NoSocket /\ socks[wsRef[c]].rs = "open"

Steps == Rems \cup {r \div 2 : r \in Rems}

TimeStep    == \E d \in Steps : Advance(d)
EditSteps   == \/ \E c \in Clients, v \in Typed : EditorChange(c, v)
               \/ \E t \in sendTimers : SendFire(t)
               \/ \E t \in echoTimers : EchoFire(t)
ImageSteps  == \/ \E c \in Clients : PasteImage(c)
               \/ \E c \in Clients, id \in 1..MaxImages : ClickRemoveImage(c, id)
               \/ \E s \in SockIds, id \in 1..MaxImages : ResendImage(s, id)
SocketSteps == \/ \E s \in SockIds : OnOpen(s)
               \/ \E s \in SockIds : TransportDown(s)
               \/ \E s \in SockIds : OnError(s)
               \/ \E s \in SockIds : OnClose(s)
               \/ \E t \in reconnTimers : ReconnFire(t)
               \/ \E s \in SockIds : RoomJoin(s)
               \/ \E s \in SockIds : RoomLeave(s)
RelaySteps  == \/ \E s \in SockIds : OnMessage(s)
               \/ \E s \in SockIds : RoomRecv(s)
               \/ \E sl \in Slugs : RoomFlush(sl)
ReadSteps   == \/ \E l \in loads : LoadGet(l)
               \/ \E l \in loads : LoadApply(l)
CreateSteps == \/ \E l \in loads : LoadPost(l)
               \/ \E l \in loads : LoadThrow(l)
RouteSteps  == \/ \E c \in Clients, sl \in Slugs : Navigate(c, sl)
               \/ \E c \in Clients : Unmount(c)

\* The whole system from the mount of every App instance
Next == TimeStep \/ EditSteps \/ ImageSteps \/ SocketSteps \/ RelaySteps
          \/ ReadSteps \/ CreateSteps \/ RouteSteps

Spec == Init /\ [][Next]_vars

\* Both clients have loaded the shared Snippet and are attached to its Room
InitLive == InitWith([c \in Clients |-> "live"], SharedSnippet)

\* Editing: both users type; edits are debounced, relayed and written back
NextEdit == TimeStep \/ EditSteps \/ RelaySteps

SpecEdit == InitLive /\ [][NextEdit]_vars

\* Racing the load: the second client, already attached to the Room, is
\* still waiting for the answer to its GET and shows the initial text in the
\* initial language; the first user types x, the second types y
InitRace ==
  InitWith([c \in Clients |-> IF c = ClientSeq[1] THEN "live" ELSE "connected"],
           SharedSnippet)

NextRace == \/ TimeStep
            \/ EditorChange(ClientSeq[1], "x")
            \/ EditorChange(ClientSeq[2], "y")
            \/ \E t \in sendTimers : SendFire(t)
            \/ \E t \in echoTimers : EchoFire(t)
            \/ RelaySteps
            \/ ReadSteps

SpecRace == InitRace /\ [][NextRace]_vars

\* Images: the users paste and remove images, a peer repeats an image message
NextImage == ImageSteps \/ RelaySteps

SpecImage == InitLive /\ [][NextImage]_vars

\* Sessions: both clients have loaded the shared Snippet and their first
\* sockets are still connecting, the Room does not exist yet; connections
\* are accepted, fail and are retried
InitSession == InitWith([c \in Clients |-> "loaded"], SharedSnippet)

NextSession == TimeStep \/ SocketSteps \/ \E s \in SockIds : OnMessage(s)

SpecSession == InitSession /\ [][NextSession]_vars

\* Reconnection: as for sessions, from the state in which both clients are
\* attached to the Room
SpecReconnect == InitLive /\ [][NextSession]_vars

\* Teardown: the first client's connection fails and is retried, its route
\* changes or its component unmounts; the second client stays attached
NextTeardown ==
  \/ TimeStep
  \/ \E s \in SockIds : OnOpen(s)
  \/ \E s \in SockIds : socks[s].c = ClientSeq[1] /\ TransportDown(s)
  \/ \E s \in SockIds : OnError(s)
  \/ \E s \in SockIds : OnClose(s)
  \/ \E t \in reconnTimers : ReconnFire(t)
  \/ \E s \in SockIds : RoomJoin(s)
  \/ \E s \in SockIds : RoomLeave(s)
  \/ \E sl \in Slugs : Navigate(ClientSeq[1], sl)
  \/ Unmount(ClientSeq[1])

SpecTeardown == InitLive /\ [][NextTeardown]_vars

\* Retrying until the component unmounts; timers run out, the browser delivers the events
\* of a socket and the server accepts and drops connections in the end.
\* Transport failures, route changes and unmounts need not happen.
RetryFairness ==
  /\ WF_vars(TimeStep)
  /\ WF_vars(\E s \in SockIds : OnOpen(s))
  /\ WF_vars(\E s \in SockIds : OnError(s))
  /\ WF_vars(\E s \in SockIds : OnClose(s))
  /\ WF_vars(\E t \in reconnTimers : ReconnFire(t))
  /\ WF_vars(\E s \in SockIds : RoomJoin(s))
  /\ WF_vars(\E s \in SockIds : RoomLeave(s))

NextRetry ==
  \/ TimeStep
  \/ \E s \in SockIds : OnOpen(s)
  \/ \E s \in SockIds : socks[s].c = ClientSeq[1] /\ TransportDown(s)
  \/ \E s \in SockIds : OnError(s)
  \/ \E s \in SockIds : OnClose(s)
  \/ \E t \in reconnTimers : ReconnFire(t)
  \/ \E s \in SockIds : RoomJoin(s)
  \/ \E s \in SockIds : RoomLeave(s)
  \/ Unmount(ClientSeq[1])

SpecRetry == InitLive /\ [][NextRetry]_vars /\ RetryFairness

\* Leaving: the second user types while the first client's connection fails and
\* the Room removes it
NextLeave ==
  \/ TimeStep
  \/ \E v \in Typed : EditorChange(ClientSeq[2], v)
  \/ \E t \in sendTimers : SendFire(t)
  \/ \E t \in echoTimers : EchoFire(t)
  \/ RelaySteps
  \/ \E s \in SockIds : socks[s].c = ClientSeq[1] /\ TransportDown(s)
  \/ \E s \in SockIds : OnError(s)
  \/ \E s \in SockIds : OnClose(s)
  \/ \E s \in SockIds : RoomLeave(s)

SpecLeave == InitLive /\ [][NextLeave]_vars

\* Opening a link: every client loads or creates the Snippet of its
\* identifier while its first socket connects; no request fails in transit
NextCreate ==
  \/ TimeStep
  \/ \E l \in loads : LoadGet(l)
  \/ \E l \in loads : LoadPost(l)
  \/ \E l \in loads : LoadApply(l)
  \/ \E t \in echoTimers : EchoFire(t)
  \/ \E s \in SockIds : RoomJoin(s)
  \/ \E s \in SockIds : OnOpen(s)
  \/ \E s \in SockIds : OnMessage(s)

SpecCreate == Init /\ [][NextCreate]_vars

\* Expiry: the clients load or create while the Snippet's time to live runs
\* out and the sweep removes it
NextExpiry ==
  \/ TimeStep
  \/ \E l \in loads : LoadGet(l)
  \/ \E l \in loads : LoadPost(l)
  \/ \E l \in loads : LoadApply(l)
  \/ \E t \in echoTimers : EchoFire(t)
  \/ \E sl \in Slugs : TtlElapse(sl)
  \/ \E sl \in Slugs : Sweep(sl)

SpecExpiry == Init /\ [][NextExpiry]_vars

\* Sharing: the identifier "a" is taken; the user types a custom slug into
\* the share dialog, the dialog checks it and the user shares; the server
\* validates by either rule
InitShare == \E r \in Rules : InitState([c \in Clients |-> "live"], SharedSnippet, r)

NextShare ==
  \/ TimeStep
  \/ \E ch \in Chars : SlugChange(ch)
  \/ \E t \in modal.checkTimer : CheckFire(t)
  \/ \E q \in modal.checks : CheckDone(q)
  \/ \E q \in modal.checks : CheckThrow(q)
  \/ ShareClick
  \/ \E r \in modal.shares : ShareDone(r)
  \/ \E r \in modal.shares : ShareThrow(r)

SpecShare == InitShare /\ [][NextShare]_vars

\* Payloads outside the protocol arrive while the second user types
NextGarble ==
  \/ TimeStep
  \/ \E v \in Typed : EditorChange(ClientSeq[2], v)
  \/ \E t \in sendTimers : SendFire(t)
  \/ \E t \in echoTimers : EchoFire(t)
  \/ RelaySteps
  \/ \E s \in SockIds, e \in BadPayloads : Garble(s, e)

SpecGarble == InitLive /\ [][NextGarble]_vars

\* Recovery: the clients load or create while requests can fail in transit,
\* the Room can create the Snippet on first connect, and the Snippet can expire
NextRecover ==
  \/ TimeStep
  \/ \E l \in loads : LoadGet(l)
  \/ \E l \in loads : LoadPost(l)
  \/ \E l \in loads : LoadApply(l)
  \/ \E l \in loads : LoadThrow(l)
  \/ \E t \in echoTimers : EchoFire(t)
  \/ \E s \in SockIds : RoomJoin(s)
  \/ \E sl \in Slugs : TtlElapse(sl)
  \/ \E sl \in Slugs : Sweep(sl)

SpecRecover == Init /\ [][NextRecover]_vars

\* First connections: both clients have loaded and their first sockets reach
\* the server while no Room is registered
SpecAcquire == InitSession /\ [][NextRetry]_vars

\* Pasting: both users paste and remove images while attached to the Room
NextPaste ==
  \/ \E c \in Clients : PasteImage(c)
  \/ \E c \in Clients, id \in 1..MaxImages : ClickRemoveImage(c, id)
  \/ RelaySteps

SpecPaste == InitLive /\ [][NextPaste]_vars

\* The first client is attached to the Room alone; the second has loaded
\* and its first socket is still connecting
InitAlone ==
  InitWith([c \in Clients |-> IF c = ClientSeq[1] THEN "live" ELSE "loaded"],
           SharedSnippet)

\* Offline: the first client's connection fails and is retried, or its
\* component unmounts; while the client has no open socket its user types
\* and pastes and removes images. The second client's connection is not
\* accepted
Offline(c) == ~HasOpen(c)

NextOffline ==
  \/ TimeStep
  \/ Offline(ClientSeq[1]) /\ EditorChange(ClientSeq[1], "x")
  \/ \E t \in sendTimers : SendFire(t)
  \/ Offline(ClientSeq[1]) /\ PasteImage(ClientSeq[1])
  \/ \E id \in 1..MaxImages : Offline(ClientSeq[1]) /\ ClickRemoveImage(ClientSeq[1], id)
  \/ \E s \in SockIds : RoomRecv(s)
  \/ \E s \in SockIds : socks[s].c = ClientSeq[1] /\ OnOpen(s)
  \/ \E s \in SockIds : socks[s].c = ClientSeq[1] /\ TransportDown(s)
  \/ \E s \in SockIds : OnError(s)
  \/ \E s \in SockIds : OnClose(s)
  \/ \E t \in reconnTimers : ReconnFire(t)
  \/ \E s \in SockIds : socks[s].c = ClientSeq[1] /\ RoomJoin(s)
  \/ \E s \in SockIds : RoomLeave(s)
  \/ Unmount(ClientSeq[1])

SpecOffline == InitAlone /\ [][NextOffline]_vars

\* Switching: the second user types in Room a while the route of the first
\* client changes; the first client loads the Snippet of its new identifier
\* and connects to its Room, and its old socket closes
NextSwitch ==
  \/ TimeStep
  \/ \E v \in Typed : EditorChange(ClientSeq[2], v)
  \/ \E t \in sendTimers : SendFire(t)
  \/ \E t \in echoTimers : EchoFire(t)
  \/ \E s \in SockIds : RoomRecv(s)
  \/ \E s \in SockIds : OnMessage(s)
  \/ \E sl \in Slugs : Navigate(ClientSeq[1], sl)
  \/ \E l \in loads : LoadGet(l)
  \/ \E l \in loads : LoadPost(l)
  \/ \E l \in loads : LoadApply(l)
  \/ \E s \in SockIds : RoomJoin(s)
  \/ \E s \in SockIds : OnOpen(s)
  \/ \E s \in SockIds : OnClose(s)
  \/ \E s \in SockIds : RoomLeave(s)

SpecSwitch == InitLive /\ [][NextSwitch]_vars

\* Carrying over: the first user types and the route of that client changes;
\* the client connects to the Room of its new identifier and loads its Snippet
NextCarry ==
  \/ TimeStep
  \/ \E v \in Typed : EditorChange(ClientSeq[1], v)
  \/ \E t \in sendTimers : SendFire(t)
  \/ \E t \in echoTimers : EchoFire(t)
  \/ \E s \in SockIds : RoomRecv(s)
  \/ \E s \in SockIds : OnMessage(s)
  \/ \E sl \in Slugs : Navigate(ClientSeq[1], sl)
  \/ \E l \in loads : LoadGet(l)
  \/ \E l \in loads : LoadPost(l)
  \/ \E l \in loads : LoadApply(l)
  \/ \E s \in SockIds : RoomJoin(s)
  \/ \E s \in SockIds : OnOpen(s)
  \/ \E s \in SockIds : OnClose(s)
  \/ \E s \in SockIds : RoomLeave(s)

SpecCarry == InitLive /\ [][NextCarry]_vars

\* Visiting: the second client, attached to Room a and still waiting for the
\* answer to its GET, changes its route; images are pasted in Room a
NextVisit ==
  \/ TimeStep
  \/ \E c \in Clients : PasteImage(c)
  \/ \E s \in SockIds : RoomRecv(s)
  \/ \E s \in SockIds : OnMessage(s)
  \/ \E sl \in Slugs : Navigate(ClientSeq[2], sl)
  \/ \E l \in loads : LoadGet(l)
  \/ \E l \in loads : LoadPost(l)
  \/ \E l \in loads : LoadApply(l)
  \/ \E t \in echoTimers : EchoFire(t)
  \/ \E s \in SockIds : RoomJoin(s)
  \/ \E s \in SockIds : OnOpen(s)
  \/ \E s \in SockIds : OnClose(s)
  \/ \E s \in SockIds : RoomLeave(s)

SpecVisit == InitRace /\ [][NextVisit]_vars

\* ================================================================ properties
Quiet(s) == inbox[s] = <<>> /\ outbox[s] = <<>>

\* C1: last-write-wins in the Room. Once the Room has processed an edit, its
\* content and language are exactly those of the last edit it processed (of
\* B's edit y when A's edit x was processed just before): nothing of an
\* earlier edit remains, and this is what the Room shows until the next edit.
C1_LastWriteWins ==
  \A sl \in Slugs :
    (room[sl].exists /\ hist.lastEdit[sl].type = "edit") =>
      /\ room[sl].content = hist.lastEdit[sl].content
      /\ room[sl].language = hist.lastEdit[sl].language

\* The Room processed x from one connection and then y from another
C1_Witness ==
  \E sl \in Slugs :
    /\ hist.prevEdit[sl].type = "edit" /\ hist.lastEdit[sl].type = "edit"
    /\ hist.prevEdit[sl].from # hist.lastEdit[sl].from
    /\ hist.prevEdit[sl].content = "x" /\ hist.lastEdit[sl].content = "y"
    /\ room[sl].content = "y"

\* C2: edit relay. When the Room processes an edit of connection s, every
\* other attached connection is sent exactly one broadcast_edit with the
\* same content and language and s is sent nothing; a client that receives
\* a broadcast_edit shows exactly its content and language.
C2_EditRelay ==
  [][/\ \A s \in SockIds :
          (RoomRecv(s) /\ Head(outbox[s]).type = "edit") =>
            \A t \in SockIds :
              inbox'[t] =
                IF t \in room[socks[s].slug].conns \ {s}
                THEN Append(inbox[t], [type |-> "broadcast_edit",
                                       content |-> Head(outbox[s]).content,
                                       language |-> Head(outbox[s]).language])
                ELSE inbox[t]
     /\ \A s \in SockIds :
          (OnMessage(s) /\ Head(inbox[s]).type = "broadcast_edit") =>
            /\ code'[socks[s].c] = Head(inbox[s]).content
            /\ language'[socks[s].c] = Head(inbox[s]).language]_vars

\* A client that has not shown its load result yet shows, in another
\* language than before, the edit that another client's connection sent
C2_Witness ==
  \E c \in Clients, sl \in Slugs :
    /\ hist.lastEdit[sl].type = "edit"
    /\ socks[hist.lastEdit[sl].from].c # c
    /\ hist.sinceRemote[c] = 0
    /\ code[c] = hist.lastEdit[sl].content
    /\ language[c] = hist.lastEdit[sl].language
    /\ language[c] # InitialLanguage
    /\ status[c] = "loading"
    /\ Quiet(wsRef[c])

\* C3: propagation of local changes. The value the user last typed while the
\* connection was open has been transmitted in an edit, or a debounce timer
\* that will transmit it is pending: no such change is dropped.
C3_NoChangeDiscarded ==
  \A c \in Clients :
    hist.pendingTyped[c] # "none" =>
      \E t \in sendTimers : t.c = c /\ t.v = hist.pendingTyped[c]

\* C4: a fresh HTTP read after write propagation. When the Room has processed
\* an edit and its state has reached the Store, GET returns that edit's
\* content and language; and a client whose load is answered shows exactly
\* the record it was given.
C4_FreshRead ==
  /\ [](\A sl \in Slugs :
          (room[sl].exists /\ ~room[sl].dirty /\ hist.lastEdit[sl].type = "edit") =>
            /\ StoreGet(sl).present
            /\ StoreGet(sl).content = hist.lastEdit[sl].content
            /\ StoreGet(sl).language = hist.lastEdit[sl].language)
  /\ [][\A l \in loads :
          LoadApply(l) =>
            /\ code'[l.c] = l.data.content
            /\ language'[l.c] = l.data.language
            /\ status'[l.c] = "ready"]_vars

\* A client that loaded after another client's edit had been relayed and
\* written back shows that edit, before the broadcast of it is delivered
C4_Witness ==
  \E c \in Clients, sl \in Slugs :
    /\ hist.lastEdit[sl].type = "edit"
    /\ socks[hist.lastEdit[sl].from].c # c
    /\ status[c] = "ready" /\ slug[c] = sl
    /\ code[c] = hist.lastEdit[sl].content
    /\ code[c] = StoreGet(sl).content
    /\ wsRef[c] # NoSocket
    /\ inbox[wsRef[c]] # <<>>
    /\ Head(inbox[wsRef[c]]).type = "broadcast_edit"
    /\ Head(inbox[wsRef[c]]).content = code[c]

\* C5: viewer accounting. Once the messages sent to an open connection have
\* been delivered, the viewer count its client displays is the number of
\* connections attached to the Room (joins minus leaves).
C5_ViewerAccounting ==
  \A c \in Clients :
    (/\ wsRef[c] # NoSocket
     /\ socks[wsRef[c]].rs = "open"
     /\ wsRef[c] \in room[slug[c]].conns
     /\ inbox[wsRef[c]] = <<>>) =>
      viewers[c] = Cardinality(room[slug[c]].conns)

IsUnique(q) == \A i, j \in DOMAIN q : i # j => q[i] # q[j]

\* C6: idempotent image add. No image list (Room, Store, client) ever holds
\* two entries with the same id; a Room handed an image message whose id it
\* holds, and a client handed a broadcast_image whose id it holds, leave
\* their list as it is.
C6_IdempotentImages ==
  /\ [](/\ \A sl \in Slugs : IsUnique(room[sl].images) /\ IsUnique(store[sl].images)
        /\ \A c \in Clients : IsUnique(pastedImages[c]))
  /\ [][/\ \A s \in SockIds :
             (/\ RoomRecv(s)
              /\ Head(outbox[s]).type = "image"
              /\ Head(outbox[s]).image \in Range(room[socks[s].slug].images)) =>
               room'[socks[s].slug].images = room[socks[s].slug].images
        /\ \A s \in SockIds :
             (/\ OnMessage(s)
              /\ Head(inbox[s]).type = "broadcast_image"
              /\ Head(inbox[s]).image \in Range(pastedImages[socks[s].c])) =>
               pastedImages' = pastedImages]_vars

\* The Room was handed the same image twice and a client was handed a
\* broadcast_image for an image it held; each holds the image once
C6_Witness ==
  /\ hist.dupRoom /\ hist.dupClient
  /\ \E sl \in Slugs : room[sl].images = <<1>>
  /\ \E c \in Clients : pastedImages[c] = <<1>> /\ Quiet(wsRef[c]) /\ status[c] = "ready"

\* C7: outbound debouncing. When the last change the editor reported came
\* less than 300 ms after the one before (a burst), the debounce callback
\* runs only when 300 ms have passed since that last change, so no edit is
\* transmitted during the burst; and when it runs no other send of that
\* client is scheduled, so the burst yields at most one edit.
C7_Debounce ==
  [][\A t \in sendTimers :
       (SendFire(t) /\ hist.burst[t.c]) =>
         /\ hist.sinceChange[t.c] = DebounceMs
         /\ \A u \in sendTimers' : u.c # t.c]_vars

\* C8: the edit transmitted carries the content and language the client is
\* displaying at the moment the debounce callback runs.
C8_SendsDisplayed ==
  [][\A t \in sendTimers :
       (SendFire(t) /\ outbox' # outbox) =>
         /\ t.v = code[t.c]
         /\ t.language = language[t.c]]_vars

\* C9: echo suppression. During the 50 ms that follow the display of a
\* broadcast_edit or of the load result, isRemote is set.
C9_EchoWindow ==
  \A c \in Clients : hist.sinceRemote[c] < EchoMs => isRemote[c]

\* C10: reconnection. The close event of a socket of a live session leaves
\* exactly one reconnect timer of that session pending, set to 3000 ms; the
\* callback of such a timer runs 3000 ms after that close event, on every
\* attempt, and creates exactly one socket, connecting, for the same
\* identifier.
C10_Reconnect ==
  [][/\ \A s \in SockIds :
          (OnClose(s) /\ ~Dead(socks[s].c, socks[s].sess)) =>
            /\ {t \in reconnTimers' : t.c = socks[s].c /\ t.sess = socks[s].sess}
                 = {[c |-> socks[s].c, rem |-> ReconnectMs, sess |-> socks[s].sess,
                     slug |-> socks[s].slug, cur |-> TRUE]}
            /\ {t \in reconnTimers : t.c = socks[s].c /\ t.sess = socks[s].sess} = {}
     /\ \A t \in reconnTimers :
          (ReconnFire(t) /\ ~Dead(t.c, t.sess)) =>
            /\ hist.sinceClose[t.c] = ReconnectMs
            /\ Len(socks') = Len(socks) + 1
            /\ socks'[Len(socks')] = NewSocket(t.c, slug[t.c], gen[t.c])
            /\ socks'[Len(socks')].slug = socks[wsRef[t.c]].slug
            /\ socks[wsRef[t.c]].rs = "closed"
            /\ wsRef'[t.c] = Len(socks')]_vars

\* A client is on its third socket: two closes, one through onerror and
\* close(), one without an error event, each followed by a reconnect
C10_Witness ==
  \E c \in Clients :
    /\ Cardinality({s \in SockIds : socks[s].c = c}) = 3
    /\ socks[wsRef[c]].rs = "open"
    /\ wsReady[c]

\* C11: intentional teardown cancels reconnection. A session that has been
\* torn down has no pending reconnect timer and no socket that is connecting
\* or open; the teardown step removes the session's pending timer; a close
\* event of a torn-down session's socket schedules nothing; the callback of
\* a torn-down session's timer creates no socket; and every socket that is
\* created belongs to the session that is current for its client.
C11_Teardown ==
  /\ [](/\ \A t \in reconnTimers : ~Dead(t.c, t.sess)
        /\ \A s \in SockIds :
             Dead(socks[s].c, socks[s].sess) => socks[s].rs \in {"closing", "closed"})
  /\ [][/\ \A c \in Clients :
             gen'[c] # gen[c] =>
               \A t \in reconnTimers' : t.c = c => t.sess = gen'[c]
        /\ \A s \in SockIds :
             (OnClose(s) /\ Dead(socks[s].c, socks[s].sess)) =>
               reconnTimers' = reconnTimers
        /\ \A t \in reconnTimers :
             (ReconnFire(t) /\ Dead(t.c, t.sess)) => socks' = socks
        /\ \A i \in DOMAIN socks' :
             i > Len(socks) => socks'[i].sess = gen'[socks'[i].c]]_vars

\* A route change came 1500 ms after the client's socket had closed, while
\* the reconnect timer was pending: no timer is left, the old session's
\* socket is closed and the new session's socket, for the new identifier,
\* is open
C11_Witness ==
  \E c \in Clients :
    /\ gen[c] > 1 /\ slug[c] = "b"
    /\ hist.sinceClose[c] = ReconnectMs \div 2
    /\ reconnTimers = {}
    /\ \A s \in SockIds :
         (socks[s].c = c /\ Dead(c, socks[s].sess)) => socks[s].rs = "closed"
    /\ wsRef[c] # NoSocket
    /\ socks[wsRef[c]].slug = "b" /\ socks[wsRef[c]].rs = "open"

\* C12: reconnect liveness. In every state a session that has not been torn
\* down has a socket that is connecting, open or closing, or a pending
\* reconnect timer of its own; and, when the server accepts connections in
\* the end, a session without an open socket gets one (or is torn down).
C12_NeverStuck ==
  /\ [](\A c \in Clients :
          slug[c] # NoSlug =>
            \/ /\ wsRef[c] # NoSocket
               /\ socks[wsRef[c]].sess = gen[c]
               /\ socks[wsRef[c]].rs \in {"connecting", "open", "closing"}
            \/ \E t \in reconnTimers : t.c = c /\ t.sess = gen[c])
  /\ \A c \in Clients :
       (slug[c] # NoSlug /\ ~HasOpen(c)) ~> (HasOpen(c) \/ slug[c] = NoSlug)

\* After two transport failures, one answered by onerror and close(), the
\* client is on its third socket of the same session and that socket is open
C12_Witness ==
  \E c \in Clients :
    /\ used.drops = 2 /\ gen[c] = 1
    /\ Cardinality({s \in SockIds : socks[s].c = c /\ socks[s].rs = "closed"}) = 2
    /\ HasOpen(c) /\ wsReady[c]
    /\ reconnTimers = {}

\* C13: room uniqueness. Every connection the server has attached for an
\* identifier is in the connection set of the one Room registered for it, and
\* an acquire that finds a Room attaches to it as it is: nothing is
\* constructed or seeded again.
C13_OneRoom ==
  /\ [](\A s \in SockIds :
          socks[s].srv = "joined" =>
            /\ room[socks[s].slug].exists
            /\ s \in room[socks[s].slug].conns)
  /\ [][\A s \in SockIds :
          (RoomJoin(s) /\ room[socks[s].slug].exists) =>
            room'[socks[s].slug] = [room[socks[s].slug] EXCEPT !.conns = @ \cup {s}]]_vars

\* Two connections requested while no Room existed are both attached, before
\* either client has seen its socket open
C13_Witness ==
  \E sl \in Slugs :
    /\ used.drops = 0
    /\ Cardinality(room[sl].conns) = 2
    /\ \A s \in room[sl].conns : socks[s].rs = "connecting" /\ socks[s].srv = "joined"

\* C14: leave ordering. No step adds a message to the inbound queue of a
\* connection that is outside the Room's connection set after the step, and
\* a leave ends every remaining connection's queue with viewers{count}
\* where count is the size of the set after the removal.
C14_LeaveOrdering ==
  [][/\ \A s \in SockIds :
          s \notin room'[socks[s].slug].conns => Len(inbox'[s]) <= Len(inbox[s])
     /\ \A s \in SockIds :
          RoomLeave(s) =>
            \A t \in room'[socks[s].slug].conns :
              /\ Len(inbox'[t]) = Len(inbox[t]) + 1
              /\ inbox'[t][Len(inbox'[t])] =
                   [type |-> "viewers",
                    count |-> Cardinality(room'[socks[s].slug].conns)]]_vars

\* The first client's connection has been removed; afterwards the Room
\* processed an edit of the second client, which nobody was left to receive,
\* and the second client has counted one viewer
C14_Witness ==
  \E s \in SockIds :
    /\ socks[s].c = ClientSeq[1] /\ socks[s].srv = "gone"
    /\ room[socks[s].slug].exists
    /\ room[socks[s].slug].conns # {}
    /\ room[socks[s].slug].content \in Typed
    /\ hist.lastEdit[socks[s].slug].type = "edit"
    /\ code[ClientSeq[1]] = SharedSnippet.content
    /\ viewers[ClientSeq[2]] = 1

\* C15: first writer wins. A create for an identifier that has a Snippet
\* changes nothing, a create for a fresh identifier stores its content; and
\* clients that load or create the same identifier concurrently never end in
\* status error: each one is loading with a request under way, or ready and
\* showing the content and language the Store holds.
C15_FirstWriterWins ==
  /\ [](\A c \in Clients :
          /\ status[c] # "error"
          /\ status[c] = "loading" => \E l \in loads : l.c = c
          /\ status[c] = "ready" =>
               /\ store[slug[c]].present
               /\ code[c] = store[slug[c]].content
               /\ language[c] = store[slug[c]].language)
  /\ [][\A l \in loads :
          LoadPost(l) =>
            IF store[l.slug].present
            THEN store' = store
            ELSE /\ store'[l.slug].present
                 /\ store'[l.slug].content = CreateContent
                 /\ store'[l.slug].language = CreateLanguage
                 /\ \A sl \in Slugs \ {l.slug} : store'[sl] = store[sl]]_vars

\* Both clients got 404 and both have posted, one create won and the other
\* was refused; both are about to read the identifier again
C15_Witness ==
  /\ \A c \in Clients : \E l \in loads : l.c = c /\ l.pc = "get2"
  /\ store["a"].present
  /\ store["a"].content = CreateContent
  /\ \A s \in SockIds : socks[s].srv = "pending"

\* The Store holds a Snippet for sl whose time to live has not run out
Live(sl) == store[sl].present /\ ~store[sl].expired

\* C16: time to live. A GET answered before the Snippet's time to live has
\* run out returns the record; a GET answered after it gets NotFound, swept
\* or not; and a create for an expired identifier stores a new live Snippet.
C16_Ttl ==
  [][\A l \in loads :
       /\ LoadGet(l) =>
            IF Live(l.slug)
            THEN [l EXCEPT !.pc = "apply", !.data = store[l.slug]] \in loads'
            ELSE /\ \A m \in loads' : m.c = l.c => (m.pc = "post" /\ l.pc = "get1")
                 /\ l.pc = "get2" => status'[l.c] = "error"
       /\ LoadPost(l) =>
            IF Live(l.slug)
            THEN store' = store
            ELSE /\ store'[l.slug].present /\ ~store'[l.slug].expired
                 /\ store'[l.slug].content = CreateContent]_vars

\* The first client shows the shared Snippet it read before the expiry; the
\* second client's GET came after it and got 404 although the expired record
\* has not been swept, so the client is about to create the identifier again
C16_Witness ==
  /\ status[ClientSeq[1]] = "ready" /\ code[ClientSeq[1]] = SharedSnippet.content
  /\ \E l \in loads : l.c = ClientSeq[2] /\ l.pc = "post"
  /\ store["a"].present /\ store["a"].expired
  /\ store["a"].content = SharedSnippet.content

\* C17: slug case-insensitivity. In every state the availability check
\* answers a text and its lower-case variant alike, hence any two case
\* variants alike; and after a create with a custom slug has succeeded, a
\* read of the lower-case variant of that slug returns the record created.
C17_CaseInsensitive ==
  /\ [](\A t \in Texts :
          toLowerCase(t) # t => checkAvailability(t) = checkAvailability(toLowerCase(t)))
  /\ [][\A r \in modal.shares :
          (ShareDone(r) /\ r.slug # <<>> /\ modal'.sharedUrl # NoUrl
             /\ \A i \in DOMAIN r.slug : Allowed(toLowerCase(r.slug)[i])) =>
            /\ StoreGet(Str(toLowerCase(r.slug)))'.present
            /\ StoreGet(Str(toLowerCase(r.slug)))'.content = ShareContent
            /\ modal'.sharedUrl = Str(toLowerCase(r.slug))]_vars

\* The user typed A- and shared it: the dialog shows the URL of a-, which
\* holds the shared code and is now reported as taken under either spelling
C17_Witness ==
  /\ modal.slug = <<"A", "-">>
  /\ modal.sharedUrl = "a-"
  /\ StoreGet("a-").content = ShareContent
  /\ checkAvailability(<<"A", "-">>) = "taken"
  /\ checkAvailability(<<"a", "-">>) = "taken"

\* C18: identical normalization end-to-end. Whenever a create request is
\* under way for an input whose availability the server has answered, the
\* identifier that was checked is the identifier the create addresses.
C18_SameIdentifier ==
  \A r \in modal.shares :
    (r.slug # <<>> /\ hist.checked.value = r.input) => hist.checked.name = Requested(r)

\* The types the client has a branch for, and the fields each one needs
Required ==
  [connected |-> {"viewers"}, viewers |-> {"count"},
   broadcast_edit |-> {"content", "language"}, broadcast_image |-> {"image"},
   broadcast_remove_image |-> {"id"}]

Malformed(e) ==
  \/ "text" \in DOMAIN e
  \/ e.type \notin DOMAIN Required
  \/ ~(Required[e.type] \subseteq DOMAIN e)

\* C19: unknown or malformed inbound messages are ignored. Handling a payload
\* that is not JSON, has an unknown type, or has a known type but lacks a
\* required field leaves content, language, images and viewer count as they
\* were, leaves the socket as it was and takes the payload off the queue.
C19_MalformedIgnored ==
  [][\A s \in SockIds :
       (OnMessage(s) /\ Malformed(Head(inbox[s]))) =>
         /\ code' = code /\ language' = language
         /\ pastedImages' = pastedImages /\ viewers' = viewers
         /\ socks' = socks
         /\ inbox'[s] = Tail(inbox[s])]_vars

\* C20: NotFound recovery. A 404 on the first GET leaves the status alone
\* and is followed by a POST for the same identifier with the default
\* content; whatever the POST's outcome the identifier is read again; a GET
\* that succeeds leads to status ready; and the status becomes error only by
\* a request that throws or a final GET that is not OK.
C20_Recovery ==
  [][/\ \A l \in loads :
          /\ (LoadGet(l) /\ l.pc = "get1" /\ ~StoreGet(l.slug).present) =>
               /\ [l EXCEPT !.pc = "post"] \in loads'
               /\ status' = status
          /\ LoadPost(l) =>
               /\ [l EXCEPT !.pc = "get2"] \in loads'
               /\ store' = StoreCreate(l.slug, CreateContent, CreateLanguage)
               /\ status' = status
          /\ (LoadGet(l) /\ StoreGet(l.slug).present) =>
               [l EXCEPT !.pc = "apply", !.data = StoreGet(l.slug)] \in loads'
          /\ LoadApply(l) => status'[l.c] = "ready"
     /\ \A c \in Clients :
          (status'[c] = "error" /\ status[c] # "error") =>
            \E l \in loads :
              /\ l.c = c
              /\ \/ LoadThrow(l)
                 \/ LoadGet(l) /\ l.pc = "get2" /\ ~StoreGet(l.slug).present]_vars

\* A client whose first GET got 404 and whose create was refused, because
\* the Snippet had been created in between, is ready and shows that Snippet
C20_Witness ==
  \E c \in Clients :
    /\ hist.refused[c]
    /\ status[c] = "ready"
    /\ \A l \in loads : l.c # c
    /\ store[slug[c]].present
    /\ code[c] = store[slug[c]].content

\* Every message of the Room of sl has been delivered: nothing is queued on
\* any of its connections, and each is open at its client
Delivered(sl) ==
  \A s \in room[sl].conns :
    Quiet(s) /\ socks[s].rs = "open" /\ wsRef[socks[s].c] = s

\* C21: image order. The Room appends an image it does not hold at the end
\* of its sequence, and once all messages are delivered every connected
\* client displays the Room's image sequence: the same ids in the same order.
C21_ImageOrder ==
  /\ [](\A sl \in Slugs :
          (room[sl].exists /\ Delivered(sl)) =>
            \A s \in room[sl].conns : pastedImages[socks[s].c] = room[sl].images)
  /\ [][\A s \in SockIds :
          (/\ RoomRecv(s)
           /\ Head(outbox[s]).type = "image"
           /\ Head(outbox[s]).image \notin Range(room[socks[s].slug].images)) =>
            room'[socks[s].slug].images =
              Append(room[socks[s].slug].images, Head(outbox[s]).image)]_vars

\* Nothing is in flight and no debounce or echo-suppression timer is pending
Quiescent ==
  /\ sendTimers = {} /\ echoTimers = {}
  /\ \A s \in SockIds : Quiet(s)

\* C22: quiescent convergence. Once no message is in flight and no debounce
\* or echo-suppression timer is pending, every client connected to a Room
\* displays the Room's content and language.
C22_Convergence ==
  Quiescent =>
    \A sl \in Slugs :
      room[sl].exists =>
        \A s \in room[sl].conns :
          (socks[s].rs = "open" /\ wsRef[socks[s].c] = s) =>
            /\ code[socks[s].c] = room[sl].content
            /\ language[socks[s].c] = room[sl].language

\* The messages queued for the Room on any socket
Outgoing == UNION {Range(outbox[s]) : s \in SockIds}

\* C23: wsSend transmits only on an open socket. A message is handed only to
\* the socket wsRef.current names, and only while it is open; a socket starts
\* with nothing to send; an edit, image or remove_image produced while the
\* socket is connecting, closing, closed or absent changes no queue and
\* leaves no timer behind, while the typed content stays displayed and the
\* image stays added or removed; and an image whose message was dropped is
\* never transmitted and never reaches a Room.
C23_SendOnlyOpen ==
  /\ [](\A id \in hist.droppedImages :
          /\ \A m \in Outgoing : ~(m.type = "image" /\ m.image = id)
          /\ \A sl \in Slugs : id \notin Range(room[sl].images))
  /\ [][/\ \A s \in DOMAIN outbox' :
             IF s \in SockIds
             THEN Len(outbox'[s]) > Len(outbox[s]) =>
                    /\ socks[s].rs = "open"
                    /\ wsRef[socks[s].c] = s
             ELSE outbox'[s] = <<>>
        /\ \A t \in sendTimers :
             (SendFire(t) /\ ~HasOpen(t.c)) =>
               /\ outbox' = outbox
               /\ sendTimers' = sendTimers \ {t}
               /\ code' = code
        /\ \A c \in Clients :
             (PasteImage(c) /\ ~HasOpen(c)) =>
               /\ outbox' = outbox /\ timerVars' = timerVars
               /\ pastedImages'[c] = Append(pastedImages[c], NewImageId)
        /\ \A c \in Clients, id \in 1..MaxImages :
             (ClickRemoveImage(c, id) /\ ~HasOpen(c)) =>
               /\ outbox' = outbox /\ timerVars' = timerVars
               /\ id \notin Range(pastedImages'[c])]_vars

\* The client is attached again through a socket created by a reconnect;
\* it still shows the text typed and the image pasted while it had no open
\* socket; the Room holds neither, nothing is in flight and no send is
\* scheduled
C23_Witness ==
  \E c \in Clients :
    /\ HasOpen(c) /\ wsRef[c] > Len(ClientSeq)
    /\ wsRef[c] \in room[slug[c]].conns
    /\ pastedImages[c] # <<>>
    /\ Range(pastedImages[c]) \subseteq hist.droppedImages
    /\ room[slug[c]].images = <<>>
    /\ code[c] = "x"
    /\ room[slug[c]].content = SharedSnippet.content
    /\ sendTimers = {}
    /\ \A s \in SockIds : outbox[s] = <<>>

\* Socket s is connecting or open
LiveSocket(s) == socks[s].rs \in {"connecting", "open"}

\* C24: at most one live socket per session. A session never has two sockets
\* that are connecting or open, never two pending reconnect timers, and never
\* a pending reconnect timer together with a connecting or open socket; and
\* when a socket is created, every earlier socket of its session is closed.
C24_OneLiveSocket ==
  /\ [](/\ \A s, t \in SockIds :
             (/\ LiveSocket(s) /\ LiveSocket(t)
              /\ socks[s].c = socks[t].c /\ socks[s].sess = socks[t].sess) => s = t
        /\ \A t, u \in reconnTimers : (t.c = u.c /\ t.sess = u.sess) => t = u
        /\ \A s \in SockIds, t \in reconnTimers :
             LiveSocket(s) => ~(t.c = socks[s].c /\ t.sess = socks[s].sess))
  /\ [][\A i \in DOMAIN socks' :
          i > Len(socks) =>
            \A s \in SockIds :
              (socks[s].c = socks'[i].c /\ socks[s].sess = socks'[i].sess) =>
                socks[s].rs = "closed"]_vars

\* A reconnect has just created the third socket of a client's session: it
\* is connecting, the two before it are closed and no reconnect is scheduled
\* for the client
C24_Witness ==
  \E c \in Clients :
    /\ Cardinality({s \in SockIds : socks[s].c = c /\ socks[s].sess = gen[c]}) = 3
    /\ socks[wsRef[c]].rs = "connecting" /\ socks[wsRef[c]].srv = "pending"
    /\ \A s \in SockIds : (socks[s].c = c /\ s # wsRef[c]) => socks[s].rs = "closed"
    /\ \A t \in reconnTimers : t.c # c

\* C25: live indicator accuracy. While the socket of the client's current
\* session is open, wsReady is true: no event of an earlier session's socket
\* clears it.
C25_LiveIndicator ==
  \A c \in Clients : HasOpen(c) => wsReady[c]

C27_OwnRoom ==
  [][\A t \in sendTimers :
       (SendFire(t) /\ outbox' # outbox) =>
         socks[wsRef[t.c]].slug = hist.typedUnder[t.c]]_vars

\* C28: the load reflects the current identifier. When a load of the
\* client's current identifier finishes, the client shows the content and
\* the language of the record it was given and none of the images it showed
\* under the identifier it left, unless the record holds it; a load response
\* for an identifier the client has left changes nothing of what it shows.
C28_CurrentLoad ==
  [][\A l \in loads :
       LoadApply(l) =>
         IF l.slug = slug[l.c]
         THEN /\ code'[l.c] = l.data.content
              /\ language'[l.c] = l.data.language
              /\ \A id \in hist.carried[l.c] :
                   id \in Range(pastedImages'[l.c]) => id \in Range(l.data.images)
         ELSE /\ code' = code /\ language' = language
              /\ pastedImages' = pastedImages /\ status' = status]_vars

\* C29: the initial load never regresses live state. When the client shows
\* the content of a broadcast_edit it received while its load was pending,
\* and that is the content the Room holds, the load response leaves the
\* displayed content as it is.
C29_NoRegress ==
  [][\A l \in loads :
       (/\ LoadApply(l)
        /\ l.slug = slug[l.c]
        /\ hist.heard[l.c] # "none"
        /\ code[l.c] = hist.heard[l.c]
        /\ room[l.slug].content = hist.heard[l.c]) =>
         code'[l.c] = code[l.c]]_vars

\* The Share button is shown and not disabled
ShareEnabled ==
  /\ modal.sharedUrl = NoUrl
  /\ ~modal.loading /\ modal.slugStatus \notin {"taken", "checking"}

\* The availability check of the value in the slug field is still under
\* way: its timer is running or its request is unanswered
CheckPending ==
  \/ \E t \in modal.checkTimer : t.value = modal.slug
  \/ \E q \in modal.checks : q.value = modal.slug

\* C30: the availability status refers to the current input. The status is
\* available or taken only when the last answer shown was the server's
\* answer for the value now in the slug field, and the Share button is not
\* enabled while the check of a non-blank value in the field is pending.
C30_CurrentInput ==
  /\ modal.slugStatus \in {"available", "taken"} => hist.checked.value = modal.slug
  /\ (trim(modal.slug) # <<>> /\ CheckPending) => ~ShareEnabled

====
